---- MODULE Spec2Model ----
(***************************************************************************)
(* A model of wormhole-svm-test:                                           *)
(*   - the iterative account resolver (resolver.rs), specification Spec;   *)
(*   - the guardian signing helpers (guardian.rs), specifications          *)
(*     SpecGuardian and SpecGenerate;                                      *)
(*   - the example verifier program (vaa-verifier-example/src/lib.rs),     *)
(*     specification SpecVerifier.                                         *)
(***************************************************************************)
EXTENDS Integers, Sequences, FiniteSets, TLC

VARIABLES
    \* ---- resolve_execute_vaa_v1 (resolver.rs) ----
    pc,                 \* position in resolve_execute_vaa_v1
    payer,              \* payer.pubkey()
    guardian_set,       \* the guardian_set argument
    max_iterations,     \* the max_iterations argument
    iteration,          \* the loop variable (0 before the first round)
    remaining_accounts, \* Vec<AccountMeta>
    sim_result,         \* return data of the simulation awaiting decode
    result,             \* the value returned to the caller
    requests,           \* account list of every simulate call issued, in order
    outcomes,           \* every decoded outcome dispatched, in order
    \* ---- TestGuardian / TestGuardianSet (guardian.rs) ----
    gpc,                \* where the caller of the guardian helpers stands
    guardians,          \* TestGuardianSet.guardians
    call,               \* the last operation: its arguments and what it returned
    \* ---- vaa-verifier-example (lib.rs) ----
    vpc,                \* "client", "entry" (instruction submitted) or "done"
    ix,                 \* the instruction submitted: its accounts and data
    built,              \* the arguments of build_verify_vaa_instruction, if it built ix
    vret                \* what process_instruction did with ix

vars == <<pc, payer, guardian_set, max_iterations, iteration, remaining_accounts,
          sim_result, result, requests, outcomes, gpc, guardians, call,
          vpc, ix, built, vret>>

resolverVars == <<pc, payer, guardian_set, max_iterations, iteration,
                  remaining_accounts, sim_result, result, requests, outcomes>>

guardianVars == <<gpc, guardians, call>>

verifierVars == <<vpc, ix, built, vret>>

----------------------------------------------------------------------------
(* Bounds of the model *)

\* largest max_iterations the caller passes
MaxIter == 3
\* most accounts the target program reports over one session
MaxAccounts == 3

----------------------------------------------------------------------------
(* resolver.rs: well-known placeholder keys and the keys of the model *)

RESOLVER_PUBKEY_PAYER == "RESOLVER_PUBKEY_PAYER"
RESOLVER_PUBKEY_GUARDIAN_SET == "RESOLVER_PUBKEY_GUARDIAN_SET"
RESOLVER_PUBKEY_SHIM_VAA_SIGS == "RESOLVER_PUBKEY_SHIM_VAA_SIGS"

\* the keys a target program may report as missing
ReportedKeys ==
    {RESOLVER_PUBKEY_PAYER, RESOLVER_PUBKEY_GUARDIAN_SET,
     RESOLVER_PUBKEY_SHIM_VAA_SIGS, "OtherAccount"}

PayerKeys == {"PayerKey"}
GuardianSetKeys == {"GuardianSetKey1", "GuardianSetKey2"}

\* InstructionGroups payloads a Resolved outcome may carry
GroupValues == {<<>>, <<"group1">>, <<"group1", "group2">>}

\* sequences over S of length 0..n
RECURSIVE SeqsUpTo(_, _)
SeqsUpTo(S, n) ==
    IF n = 0 THEN {<<>>}
    ELSE LET shorter == SeqsUpTo(S, n - 1)
         IN shorter \cup {Append(s, x) : s \in {t \in shorter : Len(t) = n - 1}, x \in S}

IsPrefix(s, t) == Len(s) <= Len(t) /\ SubSeq(t, 1, Len(s)) = s

----------------------------------------------------------------------------
(* The Resolver<InstructionGroups> return payload and its decoding *)

Resolved(groups) == [variant |-> "Resolved", groups |-> groups]
Missing(accounts) == [variant |-> "Missing", accounts |-> accounts]
AccountOutcome == [variant |-> "Account"]

\* what a target program can answer with at most n missing accounts
OutcomesUpTo(n) ==
    {Resolved(g) : g \in GroupValues}
      \cup {Missing(a) : a \in SeqsUpTo(ReportedKeys, n)}
      \cup {AccountOutcome}

\* borsh enum encoding: the variant index, then the variant's payload
VariantIndex(o) ==
    CASE o.variant = "Resolved" -> 0
      [] o.variant = "Missing" -> 1
      [] o.variant = "Account" -> 2

Serialize(o) == IF o.variant = "Account" THEN <<2>> ELSE <<VariantIndex(o), o>>

\* payloads that do not decode: an unknown variant index, a variant without its payload
UndecodableData == {<<3>>, <<0>>, <<1>>}

ReturnDataUpTo(n) ==
    {<<>>} \cup UndecodableData \cup {Serialize(o) : o \in OutcomesUpTo(n)}

\* a variant that reads an unknown variant index as "nothing missing"
Deserialize_Lenient(data) ==
    IF data[1] \notin {0, 1, 2}
    THEN [ok |-> TRUE, value |-> Missing(<<>>)]
    ELSE IF data[1] = 2
    THEN [ok |-> TRUE, value |-> AccountOutcome]
    ELSE IF Len(data) < 2
    THEN [ok |-> FALSE, error |-> "Unexpected length of input"]
    ELSE [ok |-> TRUE, value |-> data[2]]

\* AnchorDeserialize::deserialize on Resolver<InstructionGroups>
Deserialize(data) ==
    IF data[1] \notin {0, 1, 2}
    THEN [ok |-> FALSE, error |-> "Unexpected variant index"]
    ELSE IF data[1] = 2
    THEN [ok |-> TRUE, value |-> AccountOutcome]
    ELSE IF Len(data) < 2
    THEN [ok |-> FALSE, error |-> "Unexpected length of input"]
    ELSE [ok |-> TRUE, value |-> data[2]]

----------------------------------------------------------------------------
(* resolver.rs *)

AccountMeta_new_readonly(pubkey, is_signer) ==
    [pubkey |-> pubkey, is_signer |-> is_signer, is_writable |-> FALSE]

\* a variant that also resolves the signature-record placeholder at resolve time
substitute_placeholder_Eager(pubkey, payerKey, guardianSetKey) ==
    IF pubkey = RESOLVER_PUBKEY_PAYER THEN payerKey
    ELSE IF pubkey \in {RESOLVER_PUBKEY_GUARDIAN_SET, RESOLVER_PUBKEY_SHIM_VAA_SIGS}
    THEN guardianSetKey
    ELSE pubkey

substitute_placeholder(pubkey, payerKey, guardianSetKey) ==
    IF pubkey = RESOLVER_PUBKEY_PAYER THEN payerKey
    ELSE IF pubkey = RESOLVER_PUBKEY_GUARDIAN_SET THEN guardianSetKey
    ELSE pubkey

\* a variant that skips a key already in the list
RECURSIVE PushMissing_Dedup(_, _, _, _)
PushMissing_Dedup(accounts, missing, payerKey, guardianSetKey) ==
    IF missing = <<>> THEN accounts
    ELSE LET meta == AccountMeta_new_readonly(
                         substitute_placeholder(Head(missing), payerKey, guardianSetKey),
                         FALSE)
         IN PushMissing_Dedup(
                IF \E i \in 1..Len(accounts) : accounts[i] = meta
                THEN accounts ELSE Append(accounts, meta),
                Tail(missing), payerKey, guardianSetKey)

\* the for loop over `missing`: one push per reported key, in order
RECURSIVE PushMissing(_, _, _, _)
PushMissing(accounts, missing, payerKey, guardianSetKey) ==
    IF missing = <<>> THEN accounts
    ELSE PushMissing(
             Append(accounts,
                    AccountMeta_new_readonly(
                        substitute_placeholder(Head(missing), payerKey, guardianSetKey),
                        FALSE)),
             Tail(missing), payerKey, guardianSetKey)

\* a variant that sends every request without accounts
RequestAccounts_Empty(accounts) == <<>>

\* the accounts field of the Instruction built at the top of a round
RequestAccounts(accounts) == accounts

\* a String built by format!: the literal text, the integers and the cause it interpolates
ErrString(fmt, ints, cause) == [fmt |-> fmt, ints |-> ints, cause |-> cause]

\* a variant that counts rounds from zero
Ok_ZeroBased(groups, n) ==
    [tag |-> "Ok", instruction_groups |-> groups, iterations |-> n - 1]

Ok(groups, n) == [tag |-> "Ok", instruction_groups |-> groups, iterations |-> n]
Err(kind, msg) == [tag |-> "Err", kind |-> kind, msg |-> msg]

SimulationFailedMsg(n, e) ==
    ErrString("Resolver simulation failed on iteration {}: {:?}", <<n>>, e)
\* a variant whose message leaves the round out
EmptyResponseMsg_NoRound(n) ==
    ErrString("No return data from resolver", <<>>, "")

EmptyResponseMsg(n) ==
    ErrString("No return data from resolver on iteration {}", <<n>>, "")
DeserializationErrorMsg(e) ==
    ErrString("Failed to deserialize resolver return data: {}", <<>>, e)
UnsupportedOutcomeMsg ==
    ErrString("Resolver returned Account() -- result account not supported in test helper",
              <<>>, "")
ResolutionExhaustedMsg(n) ==
    ErrString("Resolver did not resolve after {} iterations", <<n>>, "")

\* the iteration value the loop starts a round with
NextIteration(n) == n + 1

\* a variant that runs one round too many
LoopContinues_Inclusive(n, max) == n <= max

\* the range 1..=max_iterations still has a round to run
LoopContinues(n, max) == n < max

NoResult == [tag |-> "None"]
NoData == <<>>

InitGuardianIdle ==
    /\ gpc = "idle"
    /\ guardians = <<>>
    /\ call = [op |-> "none"]

InitVerifierIdle ==
    /\ vpc = "idle"
    /\ ix = [accounts |-> <<>>, data |-> <<>>]
    /\ built = <<>>
    /\ vret = [outcome |-> "none"]

Init ==
    /\ pc = "loop"
    /\ payer \in PayerKeys
    /\ guardian_set \in GuardianSetKeys
    /\ max_iterations \in 0..MaxIter
    /\ iteration = 0
    /\ remaining_accounts = <<>>
    /\ sim_result = NoData
    /\ result = NoResult
    /\ requests = <<>>
    /\ outcomes = <<>>
    /\ InitGuardianIdle
    /\ InitVerifierIdle

\* lines 78-102, simulate_transaction returns Ok: the request is built from
\* remaining_accounts and the program's return data comes back
SimulateOk ==
    /\ pc = "loop"
    /\ LoopContinues(iteration, max_iterations)
    /\ iteration' = NextIteration(iteration)
    /\ requests' = Append(requests, RequestAccounts(remaining_accounts))
    /\ \E data \in ReturnDataUpTo(MaxAccounts - Len(remaining_accounts)) :
          sim_result' = data
    /\ pc' = "parse"
    /\ UNCHANGED <<payer, guardian_set, max_iterations, remaining_accounts, result,
                   outcomes>>
    /\ UNCHANGED <<guardianVars, verifierVars>>

\* lines 78-102, simulate_transaction returns Err: `?` returns the wrapped error
SimulateErr ==
    /\ pc = "loop"
    /\ LoopContinues(iteration, max_iterations)
    /\ iteration' = NextIteration(iteration)
    /\ requests' = Append(requests, RequestAccounts(remaining_accounts))
    /\ \E e \in {"AccountNotFound", "InstructionError"} :
          result' = Err("SimulationFailed", SimulationFailedMsg(iteration', e))
    /\ pc' = "done"
    /\ UNCHANGED <<payer, guardian_set, max_iterations, remaining_accounts, sim_result,
                   outcomes>>
    /\ UNCHANGED <<guardianVars, verifierVars>>

\* lines 104-139: parse the return data and dispatch on the outcome
Dispatch ==
    /\ pc = "parse"
    /\ IF Len(sim_result) = 0
       THEN /\ result' = Err("EmptyResponse", EmptyResponseMsg(iteration))
            /\ pc' = "done"
            /\ UNCHANGED <<remaining_accounts, outcomes>>
       ELSE LET resolver == Deserialize(sim_result) IN
            IF ~resolver.ok
            THEN /\ result' = Err("DeserializationError",
                                  DeserializationErrorMsg(resolver.error))
                 /\ pc' = "done"
                 /\ UNCHANGED <<remaining_accounts, outcomes>>
            ELSE /\ outcomes' = Append(outcomes, resolver.value)
                 /\ CASE resolver.value.variant = "Resolved" ->
                           /\ result' = Ok(resolver.value.groups, iteration)
                           /\ pc' = "done"
                           /\ UNCHANGED remaining_accounts
                      [] resolver.value.variant = "Missing" ->
                           /\ remaining_accounts' =
                                 PushMissing(remaining_accounts, resolver.value.accounts,
                                             payer, guardian_set)
                           /\ pc' = "loop"
                           /\ UNCHANGED result
                      [] resolver.value.variant = "Account" ->
                           /\ result' = Err("UnsupportedOutcome", UnsupportedOutcomeMsg)
                           /\ pc' = "done"
                           /\ UNCHANGED remaining_accounts
    /\ sim_result' = NoData
    /\ UNCHANGED <<payer, guardian_set, max_iterations, iteration, requests>>
    /\ UNCHANGED <<guardianVars, verifierVars>>

\* lines 142-145: the loop ran out of rounds
Exhausted ==
    /\ pc = "loop"
    /\ ~LoopContinues(iteration, max_iterations)
    /\ result' = Err("ResolutionExhausted", ResolutionExhaustedMsg(max_iterations))
    /\ pc' = "done"
    /\ UNCHANGED <<payer, guardian_set, max_iterations, iteration, remaining_accounts,
                   sim_result, requests, outcomes>>
    /\ UNCHANGED <<guardianVars, verifierVars>>

Next == SimulateOk \/ SimulateErr \/ Dispatch \/ Exhausted

Spec == Init /\ [][Next]_vars

\* resolve_execute_vaa_v1 is sequential code: a step that can be taken is taken
SpecFair == Spec /\ WF_vars(Next)

----------------------------------------------------------------------------
(* guardian.rs: keys, hashes and signatures                                 *)
(*                                                                          *)
(* A secret key is a big-endian byte string; the code's keys are 32 bytes   *)
(* and its curve order is 2^256 minus a gap, the model's keys are KeyLen    *)
(* bytes and its curve order is 256^KeyLen minus OrderGap.                  *)

KeyLen == 1
OrderGap == 16
\* [u8; 65] of sign, [u8; 66] of sign_vaa_body
SigLen == 65
RecordLen == 66

\* most guardians in a set built by TestGuardianSet::new
MaxGuardians == 2
\* most indices passed to sign_vaa_body_with
MaxIndices == 2
\* longest string passed to from_hex
MaxHexLen == 3

RECURSIVE Pow256(_)
Pow256(n) == IF n = 0 THEN 1 ELSE 256 * Pow256(n - 1)

RECURSIVE ScalarOf(_)
ScalarOf(bytes) ==
    IF bytes = <<>> THEN 0
    ELSE 256 * ScalarOf(SubSeq(bytes, 1, Len(bytes) - 1)) + bytes[Len(bytes)]

CurveOrder == Pow256(KeyLen) - OrderGap

\* SecretKey::parse: the scalar must be non-zero and below the curve order
\* a keccak256 digest used as a key (generate) is taken to be a valid scalar: the
\* digests that are not are 0 and the 2^-128 fraction at or above the curve order
IsDigest(bytes) == Len(bytes) > 0 /\ bytes[1] = -1

SecretKey_parse_ok(bytes) ==
    IsDigest(bytes) \/ (ScalarOf(bytes) # 0 /\ ScalarOf(bytes) < CurveOrder)

\* the byte values secret keys are drawn from: zero, small, the order, the largest
KeyByteValues == {0, 1, 15, 256 - OrderGap, 255}
KeyInputs == {k \in SeqsUpTo(KeyByteValues, KeyLen) : Len(k) = KeyLen}
ValidKeys == {k \in KeyInputs : SecretKey_parse_ok(k)}

\* the u8 index values guardians are constructed with
IndexInputs == 0..MaxGuardians

\* VAA bodies
BodyInputs == {<<>>, <<1, 2>>}

\* Keccak256::digest as a term: the preimage behind a marker that is no byte, so
\* that distinct preimages have distinct digests and one application differs from two
Keccak256(bytes) == <<-1>> \o bytes

PublicKey_from_secret_key(secret_key) == [public_key_of |-> secret_key]

\* last 20 bytes of keccak256(pubkey[1..])
EthAddress(public_key) == [keccak256_12_32_of |-> public_key]

\* a variant that never checks the key
TestGuardian_new_Unchecked(secret_key, index) ==
    [outcome |-> "value",
     value |-> [secret_key |-> secret_key,
                public_key |-> PublicKey_from_secret_key(secret_key),
                eth_address |-> EthAddress(PublicKey_from_secret_key(secret_key)),
                index |-> index]]

\* TestGuardian::new: panics on an invalid secret key
TestGuardian_new(secret_key, index) ==
    IF ~SecretKey_parse_ok(secret_key)
    THEN [outcome |-> "panic", msg |-> "Invalid secret key"]
    ELSE [outcome |-> "value",
          value |-> [secret_key |-> secret_key,
                     public_key |-> PublicKey_from_secret_key(secret_key),
                     eth_address |-> EthAddress(PublicKey_from_secret_key(secret_key)),
                     index |-> index]]

\* characters of the strings passed to from_hex; "g" is no hex digit
HexChars == {"0", "1", "f", "g"}
HexDigits == {"0", "1", "f"}
HexInputs == SeqsUpTo(HexChars, MaxHexLen)

HexVal(c) == CASE c = "0" -> 0 [] c = "1" -> 1 [] c = "f" -> 15

\* hex::decode
hex_decode(s) ==
    IF Len(s) % 2 # 0 THEN [ok |-> FALSE, error |-> "OddLength"]
    ELSE IF \E i \in 1..Len(s) : s[i] \notin HexDigits
    THEN [ok |-> FALSE, error |-> "InvalidHexCharacter"]
    ELSE [ok |-> TRUE,
          value |-> [i \in 1..(Len(s) \div 2) |->
                        16 * HexVal(s[2 * i - 1]) + HexVal(s[2 * i])]]

\* TestGuardian::from_hex
TestGuardian_from_hex(hex_key, index) ==
    LET decoded == hex_decode(hex_key) IN
    IF ~decoded.ok THEN [outcome |-> "Err", error |-> decoded.error]
    ELSE IF Len(decoded.value) # KeyLen
    THEN [outcome |-> "Err", error |-> "InvalidStringLength"]
    ELSE LET made == TestGuardian_new(decoded.value, index) IN
         IF made.outcome = "panic" THEN made
         ELSE [outcome |-> "Ok", value |-> made.value]

\* TestGuardian::sign: 64 bytes of signature, then the recovery id; each byte is
\* the term (key, digest, position)
TestGuardian_sign(g, digest) ==
    [j \in 1..SigLen |-> [key |-> g.secret_key, digest |-> digest, byte |-> j]]

\* a variant that hashes the body once
VaaDigest_Single(vaa_body) == Keccak256(vaa_body)

\* the digest signed for a VAA body
VaaDigest(vaa_body) == Keccak256(Keccak256(vaa_body))

\* TestGuardian::sign_vaa_body
TestGuardian_sign_vaa_body(g, vaa_body) ==
    LET signature == TestGuardian_sign(g, VaaDigest(vaa_body)) IN
    [j \in 1..RecordLen |-> IF j = 1 THEN g.index ELSE signature[j - 1]]

TestGuardianSet_new(gs) == gs

\* TestGuardianSet::sign_vaa_body
TestGuardianSet_sign_vaa_body(gs, vaa_body) ==
    [i \in 1..Len(gs) |-> TestGuardian_sign_vaa_body(gs[i], vaa_body)]

\* Vec::get on the guardians, by 0-based position
Get(gs, i) == IF i < Len(gs) THEN <<gs[i + 1]>> ELSE <<>>

\* a variant that stops at the first index out of bounds
RECURSIVE FilterMapGet_TakeWhile(_, _)
FilterMapGet_TakeWhile(gs, indices) ==
    IF indices = <<>> \/ Get(gs, Head(indices)) = <<>> THEN <<>>
    ELSE Get(gs, Head(indices)) \o FilterMapGet_TakeWhile(gs, Tail(indices))

\* indices.iter().filter_map(|&i| self.guardians.get(i as usize))
RECURSIVE FilterMapGet(_, _)
FilterMapGet(gs, indices) ==
    IF indices = <<>> THEN <<>>
    ELSE Get(gs, Head(indices)) \o FilterMapGet(gs, Tail(indices))

\* TestGuardianSet::sign_vaa_body_with
TestGuardianSet_sign_vaa_body_with(gs, vaa_body, indices) ==
    LET picked == FilterMapGet(gs, indices) IN
    [i \in 1..Len(picked) |-> TestGuardian_sign_vaa_body(picked[i], vaa_body)]

InitResolverIdle ==
    /\ pc = "idle"
    /\ payer = "PayerKey"
    /\ guardian_set = "GuardianSetKey1"
    /\ max_iterations = 0
    /\ iteration = 0
    /\ remaining_accounts = <<>>
    /\ sim_result = NoData
    /\ result = NoResult
    /\ requests = <<>>
    /\ outcomes = <<>>

InitGuardian ==
    /\ InitResolverIdle
    /\ InitVerifierIdle
    /\ gpc = "make"
    /\ guardians = <<>>
    /\ call = [op |-> "none"]

\* a thread that panicked runs nothing more
AfterCall(outcome, returned) == IF outcome = "panic" THEN "panicked" ELSE returned

NewGuardian ==
    /\ gpc = "make"
    /\ \E secret_key \in KeyInputs, index \in IndexInputs :
          LET made == TestGuardian_new(secret_key, index) IN
          /\ call' = [op |-> "new", secret_key |-> secret_key, index |-> index,
                      ret |-> made]
          /\ gpc' = AfterCall(made.outcome, "made")
    /\ UNCHANGED guardians
    /\ UNCHANGED <<resolverVars, verifierVars>>

FromHex ==
    /\ gpc = "make"
    /\ \E hex_key \in HexInputs, index \in IndexInputs :
          LET made == TestGuardian_from_hex(hex_key, index) IN
          /\ call' = [op |-> "from_hex", hex_key |-> hex_key, index |-> index,
                      ret |-> made]
          /\ gpc' = AfterCall(made.outcome, "made")
    /\ UNCHANGED guardians
    /\ UNCHANGED <<resolverVars, verifierVars>>

\* TestGuardianSet::new on guardians made by TestGuardian::new
GuardianInputs ==
    {TestGuardian_new(k, i).value : k \in ValidKeys, i \in IndexInputs}

SetNew ==
    /\ gpc = "make"
    /\ \E gs \in SeqsUpTo(GuardianInputs, MaxGuardians) :
          guardians' = TestGuardianSet_new(gs)
    /\ call' = [op |-> "set_new"]
    /\ gpc' = "run"
    /\ UNCHANGED <<resolverVars, verifierVars>>

SignVaaBody ==
    /\ gpc = "run"
    /\ \E vaa_body \in BodyInputs :
          call' = [op |-> "sign_vaa_body", vaa_body |-> vaa_body,
                   ret |-> [outcome |-> "value",
                            value |-> TestGuardianSet_sign_vaa_body(guardians, vaa_body)]]
    /\ gpc' = "called"
    /\ UNCHANGED guardians
    /\ UNCHANGED <<resolverVars, verifierVars>>

SignVaaBodyWith ==
    /\ gpc = "run"
    /\ \E vaa_body \in BodyInputs, indices \in SeqsUpTo(IndexInputs, MaxIndices) :
          call' = [op |-> "sign_vaa_body_with", vaa_body |-> vaa_body,
                   indices |-> indices,
                   ret |-> [outcome |-> "value",
                            value |-> TestGuardianSet_sign_vaa_body_with(
                                          guardians, vaa_body, indices)]]
    /\ gpc' = "called"
    /\ UNCHANGED guardians
    /\ UNCHANGED <<resolverVars, verifierVars>>

\* the caller takes the returned value and goes on to its next call
Return ==
    /\ gpc \in {"made", "called"}
    /\ gpc' = IF gpc = "made" THEN "make" ELSE "run"
    /\ call' = [op |-> "none"]
    /\ UNCHANGED guardians
    /\ UNCHANGED <<resolverVars, verifierVars>>

NextGuardian ==
    NewGuardian \/ FromHex \/ SetNew \/ SignVaaBody \/ SignVaaBodyWith \/ Return

SpecGuardian == InitGuardian /\ [][NextGuardian]_vars

----------------------------------------------------------------------------
(* guardian.rs: TestGuardianSet::generate *)

\* u8 holds the values below this
U8Modulus == 256
\* bytes of a u64, of the hash input of generate
U64Len == 8
GenerateInputLen == 40

\* largest small count passed to generate
MaxCount == 3

\* counts: the small ones, and those around the width of the u8 index
CountInputs == (0..MaxCount) \cup {U8Modulus, U8Modulus + 1}
SeedInputs == {0, 1, 256}

\* to_le_bytes of an integer of w bytes: the low byte first
RECURSIVE to_le_bytes(_, _)
to_le_bytes(n, w) ==
    IF w = 0 THEN <<>> ELSE <<n % 256>> \o to_le_bytes(n \div 256, w - 1)

Zeros(n) == [j \in 1..n |-> 0]

\* a variant that leaves the position out of the hash input
GenerateInput_SeedOnly(seed, i) ==
    to_le_bytes(seed, U64Len) \o Zeros(GenerateInputLen - U64Len)

\* input[..8] = seed, input[8..16] = i, the other bytes of [0u8; 40] stay zero
GenerateInput(seed, i) ==
    to_le_bytes(seed, U64Len) \o to_le_bytes(i, U64Len)
        \o Zeros(GenerateInputLen - 2 * U64Len)

\* i as u8
AsU8(i) == i % U8Modulus

\* TestGuardianSet::generate
TestGuardianSet_generate(count, seed) ==
    [p \in 1..count |->
        TestGuardian_new(Keccak256(GenerateInput(seed, p - 1)), AsU8(p - 1)).value]

InitGenerate ==
    /\ InitResolverIdle
    /\ InitVerifierIdle
    /\ gpc = "run"
    /\ guardians = <<>>
    /\ call = [op |-> "none"]

\* the arguments and the value of the caller's previous generate call, if any
PreviousGenerate ==
    IF call.op = "generate"
    THEN <<[count |-> call.count, seed |-> call.seed, value |-> call.ret.value]>>
    ELSE <<>>

Generate ==
    /\ gpc = "run"
    /\ \E count \in CountInputs, seed \in SeedInputs :
          LET made == TestGuardianSet_generate(count, seed) IN
          /\ guardians' = made
          /\ call' = [op |-> "generate", count |-> count, seed |-> seed,
                      ret |-> [outcome |-> "value", value |-> made],
                      prev |-> PreviousGenerate]
    /\ UNCHANGED gpc
    /\ UNCHANGED <<resolverVars, verifierVars>>

NextGenerate == Generate

SpecGenerate == InitGenerate /\ [][NextGenerate]_vars

----------------------------------------------------------------------------
(* programs/vaa-verifier-example/src/lib.rs *)

VERIFY_VAA_SHIM_PROGRAM_ID == "VERIFY_VAA_SHIM_PROGRAM_ID"

\* accounts read by process_instruction; bytes before the VAA in the instruction data
AccountsNeeded == 4
IxHeaderLen == 5
U32Len == 4
\* shortest byte string Vaa::parse accepts: a 6-byte header without signatures
\* and the 51 fixed bytes of a body
VaaMinLen == 57

\* longest instruction data submitted without build_instruction_data
MaxDataLen == 6
\* longest of the short byte strings passed to build_instruction_data as a VAA
MaxVaaLen == 2

\* a VAA of version 1 with no signatures and an empty payload
WellFormedVaa == <<1>> \o Zeros(VaaMinLen - 1)

BumpInputs == {0, 255}
VaaInputs == SeqsUpTo({0, 1, 255}, MaxVaaLen) \cup {WellFormedVaa}

\* instruction data from any caller; bytes small enough for the declared length
\* to stay an integer of the model
DataInputs == SeqsUpTo({0, 1, 2}, MaxDataLen)

\* the accounts of build_verify_vaa_instruction
BuiltAccounts(payerKey, guardianSetKey, guardianSignaturesKey) ==
    <<AccountMeta_new_readonly(payerKey, TRUE),
      AccountMeta_new_readonly(guardianSetKey, FALSE),
      AccountMeta_new_readonly(guardianSignaturesKey, FALSE),
      AccountMeta_new_readonly(VERIFY_VAA_SHIM_PROGRAM_ID, FALSE)>>

\* account lists from any caller: the built one, one naming another program as
\* the shim, one without the shim account
AccountInputs ==
    LET good == BuiltAccounts("PayerKey", "GuardianSetKey1", "GuardianSignatures")
    IN {good,
        [good EXCEPT ![AccountsNeeded] = AccountMeta_new_readonly("OtherProgram", FALSE)],
        SubSeq(good, 1, AccountsNeeded - 1)}

\* a variant that writes the length big-endian
build_instruction_data_BigEndian(guardian_set_bump, vaa_bytes) ==
    LET le == to_le_bytes(Len(vaa_bytes), U32Len) IN
    <<guardian_set_bump>> \o [j \in 1..U32Len |-> le[U32Len + 1 - j]] \o vaa_bytes

\* build_instruction_data: (len as u32).to_le_bytes() keeps the low four bytes
build_instruction_data(guardian_set_bump, vaa_bytes) ==
    <<guardian_set_bump>> \o to_le_bytes(Len(vaa_bytes), U32Len) \o vaa_bytes

\* build_verify_vaa_instruction
build_verify_vaa_instruction(payerKey, guardianSetKey, sigsKey, bump, vaa_bytes) ==
    [accounts |-> BuiltAccounts(payerKey, guardianSetKey, sigsKey),
     data |-> build_instruction_data(bump, vaa_bytes)]

\* u32::from_le_bytes
u32_from_le_bytes(b) == b[1] + 256 * (b[2] + 256 * (b[3] + 256 * b[4]))

\* a slice data[from..to] of a slice of length len is in range
SliceInRange(len, from, to) == from <= to /\ to <= len

\* Vaa::parse: long enough for the header, its signatures and a body
Vaa_parse_ok(vaa_bytes) ==
    /\ Len(vaa_bytes) >= VaaMinLen
    /\ Len(vaa_bytes) >= VaaMinLen + RecordLen * vaa_bytes[6]

\* vaa.body(): what follows the header and the signatures
VaaBody(vaa_bytes) ==
    SubSeq(vaa_bytes, 7 + RecordLen * vaa_bytes[6], Len(vaa_bytes))

\* what process_instruction returns, what it parsed and the CPIs it invoked
Returned(outcome, error, parsed, cpi) ==
    [outcome |-> outcome, error |-> error, parsed |-> parsed, cpi |-> cpi]

\* the VerifyHash instruction of lines 107-115
VerifyHashIx(guardianSetKey, guardianSignaturesKey, guardian_set_bump, digest) ==
    [program_id |-> VERIFY_VAA_SHIM_PROGRAM_ID,
     accounts |-> <<guardianSetKey, guardianSignaturesKey>>,
     data |-> [guardian_set_bump |-> guardian_set_bump, digest |-> digest]]

\* process_instruction; cpi_ok is whether the shim accepts the signatures
process_instruction(accounts, instruction_data, cpi_ok) ==
    IF Len(accounts) < AccountsNeeded
    THEN Returned("Err", "NotEnoughAccountKeys", <<>>, <<>>)
    ELSE IF accounts[4].pubkey # VERIFY_VAA_SHIM_PROGRAM_ID
    THEN Returned("Err", "IncorrectProgramId", <<>>, <<>>)
    ELSE IF Len(instruction_data) = 0
    THEN Returned("Err", "InvalidInstructionData", <<>>, <<>>)
    ELSE IF ~SliceInRange(Len(instruction_data), 1, IxHeaderLen)
    THEN Returned("panic", "range end index 5 out of range for slice", <<>>, <<>>)
    ELSE
      LET guardian_set_bump == instruction_data[1]
          vaa_len == u32_from_le_bytes(SubSeq(instruction_data, 2, IxHeaderLen))
      IN
      IF Len(instruction_data) < IxHeaderLen + vaa_len
      THEN Returned("Err", "InvalidInstructionData", <<>>, <<>>)
      ELSE
        LET vaa_bytes == SubSeq(instruction_data, IxHeaderLen + 1, IxHeaderLen + vaa_len)
            parsed == <<[guardian_set_bump |-> guardian_set_bump,
                         vaa_bytes |-> vaa_bytes]>>
        IN
        IF ~Vaa_parse_ok(vaa_bytes)
        THEN Returned("Err", "InvalidInstructionData", parsed, <<>>)
        ELSE
          LET digest == Keccak256(Keccak256(VaaBody(vaa_bytes)))
              verify_ix == VerifyHashIx(accounts[2].pubkey, accounts[3].pubkey,
                                        guardian_set_bump, digest)
          IN IF cpi_ok
             THEN Returned("Ok", "", parsed, <<verify_ix>>)
             ELSE Returned("Err", "Custom", parsed, <<verify_ix>>)

InitVerifier ==
    /\ InitResolverIdle
    /\ InitGuardianIdle
    /\ vpc = "client"
    /\ ix = [accounts |-> <<>>, data |-> <<>>]
    /\ built = <<>>
    /\ vret = [outcome |-> "none"]

\* a client submits the instruction of build_verify_vaa_instruction
BuildInstruction ==
    /\ vpc = "client"
    /\ \E guardian_set_bump \in BumpInputs, vaa_bytes \in VaaInputs :
          /\ ix' = build_verify_vaa_instruction("PayerKey", "GuardianSetKey1",
                                                "GuardianSignatures",
                                                guardian_set_bump, vaa_bytes)
          /\ built' = <<[guardian_set_bump |-> guardian_set_bump,
                         vaa_bytes |-> vaa_bytes]>>
    /\ vpc' = "entry"
    /\ UNCHANGED vret
    /\ UNCHANGED <<resolverVars, guardianVars>>

\* a caller submits an instruction of its own making
RawInstruction ==
    /\ vpc = "client"
    /\ \E accounts \in AccountInputs, data \in DataInputs :
          ix' = [accounts |-> accounts, data |-> data]
    /\ vpc' = "entry"
    /\ UNCHANGED <<built, vret>>
    /\ UNCHANGED <<resolverVars, guardianVars>>

\* the runtime runs process_instruction on the instruction
Process ==
    /\ vpc = "entry"
    /\ \E cpi_ok \in BOOLEAN :
          vret' = process_instruction(ix.accounts, ix.data, cpi_ok)
    /\ vpc' = "done"
    /\ UNCHANGED <<ix, built>>
    /\ UNCHANGED <<resolverVars, guardianVars>>

NextVerifier == BuildInstruction \/ RawInstruction \/ Process

SpecVerifier == InitVerifier /\ [][NextVerifier]_vars

----------------------------------------------------------------------------
(* Helpers of the resolver claims *)

IsMissing(o) == o.variant = "Missing"

\* the keys reported by the Missing outcomes among the first n dispatched outcomes
RECURSIVE ReportedThrough(_)
ReportedThrough(n) ==
    IF n = 0 THEN <<>>
    ELSE ReportedThrough(n - 1)
           \o (IF IsMissing(outcomes[n]) THEN outcomes[n].accounts ELSE <<>>)

Pubkeys(metas) == [i \in 1..Len(metas) |-> metas[i].pubkey]

\* the value the documentation of resolve_execute_vaa_v1 gives for a reported key
Expected(key) ==
    CASE key = "RESOLVER_PUBKEY_PAYER" -> payer
      [] key = "RESOLVER_PUBKEY_GUARDIAN_SET" -> guardian_set
      [] OTHER -> key

ExpectedKeys(keys) == [i \in 1..Len(keys) |-> Expected(keys[i])]

AllMissing(n) == \A i \in 1..n : IsMissing(outcomes[i])

IsErr(kind) == result.tag = "Err" /\ result.kind = kind

----------------------------------------------------------------------------
(* C1: resolve_execute_vaa_v1 always returns, having issued at most          *)
(* max_iterations simulate calls; when every round it ran answered Missing  *)
(* it ran exactly max_iterations rounds and returns the "did not resolve"   *)
(* error, which for max_iterations = 0 means no simulate call at all.       *)
C1_Bounded ==
    /\ Len(requests) <= max_iterations
    /\ (pc = "done" /\ Len(outcomes) = Len(requests) /\ AllMissing(Len(outcomes)))
          => (IsErr("ResolutionExhausted") /\ Len(requests) = max_iterations)
    /\ (pc = "done" /\ max_iterations = 0)
          => (IsErr("ResolutionExhausted") /\ requests = <<>>)

\* C1: the bound on simulate calls holds throughout and the call returns
C1_Terminates == [](C1_Bounded) /\ <>(pc = "done")

C1_Witness ==
    /\ pc = "done"
    /\ max_iterations = MaxIter
    /\ Len(requests) = MaxIter
    /\ AllMissing(Len(outcomes))
    /\ IsErr("ResolutionExhausted")

(* C2: when the rounds before the last answered Missing and the last one    *)
(* answered Resolved(groups), the call returns Ok with those groups and     *)
(* iterations equal to the 1-based number of that last round.               *)
C2_ResolvedRound ==
    (pc = "done" /\ outcomes # <<>> /\ outcomes[Len(outcomes)].variant = "Resolved")
       => /\ result.tag = "Ok"
          /\ result.instruction_groups = outcomes[Len(outcomes)].groups
          /\ result.iterations = Len(outcomes)
          /\ result.iterations = Len(requests)
          /\ result.iterations <= max_iterations
          /\ AllMissing(Len(outcomes) - 1)

C2_Witness ==
    /\ pc = "done"
    /\ result.tag = "Ok"
    /\ result.iterations = 2
    /\ result.instruction_groups # <<>>
    /\ IsMissing(outcomes[1])

(* C3: the account list sent in round n is the substituted keys reported by *)
(* the Missing outcomes of rounds 1..n-1, in order, and a request is only   *)
(* built once every earlier round's response has been dispatched.          *)
C3_RequestAccounts ==
    /\ \A n \in 1..Len(requests) :
          /\ n - 1 <= Len(outcomes)
          /\ Pubkeys(requests[n]) = ExpectedKeys(ReportedThrough(n - 1))
    /\ Len(requests) <= Len(outcomes) + 1
    /\ pc = "loop" => Len(requests) = Len(outcomes)

C3_Witness ==
    /\ Len(requests) = 3
    /\ requests[1] = <<>>
    /\ Len(requests[2]) = 1
    /\ Len(requests[3]) = 3

(* C4: in every step the accumulated account list keeps its old value as a *)
(* prefix; dispatching a Missing outcome lengthens it by the number of keys *)
(* reported (repeats included), and no other step changes it.              *)
C4_Step ==
    /\ IsPrefix(remaining_accounts, remaining_accounts')
    /\ IF Len(outcomes') = Len(outcomes) + 1 /\ IsMissing(outcomes'[Len(outcomes')])
       THEN Len(remaining_accounts') =
               Len(remaining_accounts) + Len(outcomes'[Len(outcomes')].accounts)
       ELSE remaining_accounts' = remaining_accounts

\* C4: every step of a session appends to the accumulated list or leaves it alone
C4_AppendOnly == [][C4_Step]_vars

C4_Witness ==
    /\ Len(remaining_accounts) = 3
    /\ remaining_accounts[1] = remaining_accounts[2]
    /\ remaining_accounts[1] = remaining_accounts[3]
    /\ Len(outcomes) = 3
    /\ outcomes[2].accounts = <<>>

(* C5: every reported key is appended as the payer's key if it is the payer *)
(* placeholder, as the guardian_set argument if it is the guardian-set      *)
(* placeholder, and unchanged otherwise, the signature-record placeholder   *)
(* included.                                                                *)
C5_Substitution ==
    LET reported == ReportedThrough(Len(outcomes)) IN
    /\ Len(remaining_accounts) = Len(reported)
    /\ \A i \in 1..Len(reported) :
          /\ reported[i] = "RESOLVER_PUBKEY_PAYER"
                => remaining_accounts[i].pubkey = payer
          /\ reported[i] = "RESOLVER_PUBKEY_GUARDIAN_SET"
                => remaining_accounts[i].pubkey = guardian_set
          /\ reported[i] \notin {"RESOLVER_PUBKEY_PAYER", "RESOLVER_PUBKEY_GUARDIAN_SET"}
                => remaining_accounts[i].pubkey = reported[i]

C5_Witness ==
    /\ Len(remaining_accounts) = 3
    /\ outcomes[1] = Missing(<<"RESOLVER_PUBKEY_SHIM_VAA_SIGS",
                               "RESOLVER_PUBKEY_PAYER",
                               "RESOLVER_PUBKEY_GUARDIAN_SET">>)
    /\ Pubkeys(remaining_accounts) =
          <<"RESOLVER_PUBKEY_SHIM_VAA_SIGS", payer, guardian_set>>

(* C6: a round whose simulation fails, whose return data is empty or does   *)
(* not decode, or whose outcome is Account() ends the call in that step     *)
(* with an error that carries no instruction groups; once an error is       *)
(* returned no simulate call follows.                                       *)
C6_FailingData(data) ==
    \/ Len(data) = 0
    \/ data[1] \notin {0, 1}
    \/ Len(data) < 2

C6_KindOf(data) ==
    IF Len(data) = 0 THEN "EmptyResponse"
    ELSE IF data[1] = 2 THEN "UnsupportedOutcome"
    ELSE "DeserializationError"

C6_Step ==
    /\ (pc = "parse" /\ C6_FailingData(sim_result) /\ pc' # pc)
          => /\ pc' = "done"
             /\ result'.tag = "Err"
             /\ result'.kind = C6_KindOf(sim_result)
             /\ requests' = requests
    /\ (Len(requests') > Len(requests) /\ pc' # "parse")
          => /\ pc' = "done"
             /\ result'.tag = "Err"
             /\ result'.kind = "SimulationFailed"
    /\ result'.tag = "Err"
          => /\ pc' = "done"
             /\ DOMAIN result' = {"tag", "kind", "msg"}
    /\ result.tag = "Err" => requests' = requests

\* C6: every step of a session treats a failing round as the end of the call
C6_FailureIsTerminal == [][C6_Step]_vars

C6_Witness ==
    /\ pc = "done"
    /\ IsErr("UnsupportedOutcome")
    /\ Len(remaining_accounts) = 2
    /\ Len(requests) = 2

(* C7 as stated: every error returned names the round in which the call     *)
(* failed.                                                                  *)
C7_EveryErrorNamesRound ==
    result.tag = "Err" => result.msg.ints = <<Len(requests)>>

(* C7 as amended: a failed simulation and an empty return payload name      *)
(* the round in which they happened and exhaustion names max_iterations;    *)
(* a decoding failure and an Account() outcome name no round.               *)
C7_RoundContext ==
    result.tag = "Err" =>
       /\ result.kind \in {"SimulationFailed", "EmptyResponse"}
             => result.msg.ints = <<Len(requests)>>
       /\ result.kind = "ResolutionExhausted"
             => (result.msg.ints = <<max_iterations>> /\ Len(requests) = max_iterations)
       /\ result.kind \in {"DeserializationError", "UnsupportedOutcome"}
             => result.msg.ints = <<>>

C7_Witness ==
    /\ IsErr("EmptyResponse")
    /\ Len(requests) = 2
    /\ result.msg.ints = <<2>>

----------------------------------------------------------------------------
(* Helpers of the guardian claims *)

\* the requested indices that are positions of the set, in the order given
InBounds(indices) == SelectSeq(indices, LAMBDA i : i < Len(guardians))

InvalidScalar(bytes) == ScalarOf(bytes) = 0 \/ ScalarOf(bytes) >= CurveOrder

(* C8 as stated: sign_vaa_body_with returns one 66-byte record per requested *)
(* index within the set's bounds, in the order given, each tagged in byte 0 *)
(* with the requested index; other indices give no record and no error.     *)
C8_TaggedWithRequestedIndex ==
    call.op = "sign_vaa_body_with" =>
       LET valid == InBounds(call.indices)
           out == call.ret.value
       IN /\ call.ret.outcome = "value"
          /\ Len(out) = Len(valid)
          /\ \A k \in 1..Len(out) :
                /\ Len(out[k]) = 66
                /\ out[k][1] = valid[k]

(* C8 as amended: each record is tagged in byte 0 with the index the         *)
(* guardian stored at the requested position was constructed with.          *)
C8_TaggedWithGuardianIndex ==
    call.op = "sign_vaa_body_with" =>
       LET valid == InBounds(call.indices)
           out == call.ret.value
       IN /\ call.ret.outcome = "value"
          /\ gpc = "called"
          /\ Len(out) = Len(valid)
          /\ \A k \in 1..Len(out) :
                /\ Len(out[k]) = 66
                /\ out[k][1] = guardians[valid[k] + 1].index
                /\ guardians[valid[k] + 1].index = valid[k] => out[k][1] = valid[k]

C8_Witness ==
    /\ call.op = "sign_vaa_body_with"
    /\ call.indices = <<2, 1>>
    /\ Len(guardians) = 2
    /\ guardians[2].index = 1
    /\ Len(call.ret.value) = 1
    /\ call.ret.value[1][1] = 1

(* C9: sign_vaa_body gives, for every member of the set in set order, a      *)
(* 66-byte record whose byte 0 is the guardian's index and whose other 65   *)
(* bytes are the guardian's signature over keccak256(keccak256(body)).      *)
C9_SignVaaBody ==
    call.op = "sign_vaa_body" =>
       LET out == call.ret.value IN
       /\ Len(out) = Len(guardians)
       /\ \A i \in 1..Len(out) :
             /\ Len(out[i]) = 66
             /\ out[i][1] = guardians[i].index
             /\ SubSeq(out[i], 2, 66) =
                   TestGuardian_sign(guardians[i],
                                     Keccak256(Keccak256(call.vaa_body)))
             /\ Len(SubSeq(out[i], 2, 66)) = 65

C9_Witness ==
    /\ call.op = "sign_vaa_body"
    /\ call.vaa_body = <<1, 2>>
    /\ Len(guardians) = 2
    /\ guardians[1].index = 1
    /\ guardians[1].secret_key # guardians[2].secret_key
    /\ call.ret.value[1][1] = 1

\* the bytes a from_hex call hands to TestGuardian::new, if it gets that far
C10_HexBytes == hex_decode(call.hex_key)
C10_HexReachesNew == C10_HexBytes.ok /\ Len(C10_HexBytes.value) = KeyLen

(* C10 as stated: key bytes that are no valid scalar make TestGuardian::new  *)
(* and TestGuardian::from_hex return an InvalidKey error to the caller, and *)
(* nothing else fails.                                                      *)
C10_InvalidKeyReturned ==
    /\ (call.op = "new" /\ InvalidScalar(call.secret_key))
          => (call.ret.outcome = "Err" /\ call.ret.error = "InvalidKey")
    /\ (call.op = "from_hex" /\ C10_HexReachesNew /\ InvalidScalar(C10_HexBytes.value))
          => (call.ret.outcome = "Err" /\ call.ret.error = "InvalidKey")
    /\ (call.op \in {"new", "from_hex", "sign_vaa_body", "sign_vaa_body_with"}
          /\ call.ret.outcome \in {"Err", "panic"})
          => /\ call.op \in {"new", "from_hex"}
             /\ call.op = "new" => InvalidScalar(call.secret_key)
             /\ call.op = "from_hex"
                   => (C10_HexReachesNew /\ InvalidScalar(C10_HexBytes.value))

(* C10 as amended: key bytes that are no valid scalar make TestGuardian::new *)
(* panic with "Invalid secret key", in from_hex too, which returns no error *)
(* for them; from_hex returns a FromHexError for a string that is not hex   *)
(* or does not decode to a key's length; signing never fails.               *)
C10_InvalidKeyPanics ==
    /\ call.op = "new" =>
          IF InvalidScalar(call.secret_key)
          THEN /\ call.ret.outcome = "panic"
               /\ call.ret.msg = "Invalid secret key"
               /\ gpc = "panicked"
          ELSE call.ret.outcome = "value" /\ gpc = "made"
    /\ call.op = "from_hex" =>
          IF C10_HexReachesNew
          THEN IF InvalidScalar(C10_HexBytes.value)
               THEN /\ call.ret.outcome = "panic"
                    /\ call.ret.msg = "Invalid secret key"
                    /\ gpc = "panicked"
               ELSE call.ret.outcome = "Ok" /\ gpc = "made"
          ELSE /\ call.ret.outcome = "Err"
               /\ call.ret.error \in {"OddLength", "InvalidHexCharacter",
                                      "InvalidStringLength"}
               /\ gpc = "made"
    /\ call.op \in {"sign_vaa_body", "sign_vaa_body_with"}
          => (call.ret.outcome = "value" /\ gpc = "called")
    /\ gpc = "panicked" => call.op \in {"new", "from_hex"}

C10_Witness ==
    /\ call.op = "from_hex"
    /\ call.hex_key = <<"0", "0">>
    /\ call.ret.outcome = "panic"
    /\ gpc = "panicked"

----------------------------------------------------------------------------
(* Claims about generate *)

\* byte j (1-based) of the little-endian form of n, for n below 2^24
C11_LeByte(n, j) == IF j <= 3 THEN (n \div Pow256(j - 1)) % 256 ELSE 0

\* byte j (1-based) of the 40-byte hash input for the guardian at position i
C11_InputByte(seed, i, j) ==
    IF j <= 8 THEN C11_LeByte(seed, j)
    ELSE IF j <= 16 THEN C11_LeByte(i, j - 8)
    ELSE 0

(* C11: generate(count, seed) gives count guardians; the one at position i   *)
(* has secret key keccak256(seed || i), the eth address derived from that   *)
(* key and index i as u8; a second call with the same arguments, whatever   *)
(* was generated before, gives the same set.                                *)
C11_GenerateReproducible ==
    call.op = "generate" =>
       /\ Len(call.ret.value) = call.count
       /\ guardians = call.ret.value
       /\ \A p \in 1..Len(call.ret.value) :
             LET g == call.ret.value[p]
                 key == Keccak256([j \in 1..40 |-> C11_InputByte(call.seed, p - 1, j)])
             IN /\ g.secret_key = key
                /\ g.eth_address = EthAddress(PublicKey_from_secret_key(key))
                /\ g.index = (p - 1) % 256
       /\ \A k \in 1..Len(call.prev) :
             (call.prev[k].count = call.count /\ call.prev[k].seed = call.seed)
                => call.prev[k].value = call.ret.value

C11_Witness ==
    /\ call.op = "generate"
    /\ call.count = 3
    /\ call.seed = 1
    /\ Len(call.prev) = 1
    /\ call.prev[1].count = 3
    /\ call.prev[1].seed = 1
    /\ call.prev[1].value = guardians
    /\ guardians[1].secret_key # guardians[2].secret_key

(* C12: in every set made by generate the guardian at position i carries    *)
(* index i, and no two members share an index.                              *)
C12_IndexIsPosition ==
    call.op = "generate" =>
       /\ \A p \in 1..Len(guardians) : guardians[p].index = p - 1
       /\ \A p, q \in 1..Len(guardians) :
             p # q => guardians[p].index # guardians[q].index

----------------------------------------------------------------------------
(* Claims about the example verifier program *)

C14_Malformed(data) ==
    \/ Len(data) < 5
    \/ Len(data) < 5 + (data[2] + 256 * data[3] + 65536 * data[4] + 16777216 * data[5])

C14_AccountsAccepted ==
    Len(ix.accounts) >= 4 /\ ix.accounts[4].pubkey = "VERIFY_VAA_SHIM_PROGRAM_ID"

(* C14: malformed instruction data makes process_instruction return          *)
(* InvalidInstructionData instead of aborting, a wrong shim program id       *)
(* makes it return IncorrectProgramId, and in none of these cases is the    *)
(* verify CPI invoked.                                                      *)
C14_MalformedIsRejected ==
    vpc = "done" =>
       /\ (C14_AccountsAccepted /\ C14_Malformed(ix.data))
             => /\ vret.outcome = "Err"
                /\ vret.error = "InvalidInstructionData"
                /\ vret.cpi = <<>>
       /\ (Len(ix.accounts) >= 4 /\ ~C14_AccountsAccepted)
             => /\ vret.outcome = "Err"
                /\ vret.error = "IncorrectProgramId"
                /\ vret.cpi = <<>>

====
